---------------------------- MODULE Spec2Model ----------------------------
(***************************************************************************)
(* Model of src/main.py: the text parser (parse_text_file) and the         *)
(* spreadsheet renderer (write_tables_to_excel with its passes             *)
(* convert_strings_to_numbers, merge_cells_in_worksheet, merge_table_names *)
(* and set_column_widths_by_header).                                       *)
(*                                                                         *)
(* A Python str is a sequence of one-character strings.  The alphabet of   *)
(* the inputs is: the blank " ", the separators "#" and "&", the period    *)
(* and the comma, the digits, and letters other than those float() reads   *)
(* (no e, E, i, n, f, underscore or sign), so that float() succeeds        *)
(* exactly on the decimal numerals.                                        *)
(***************************************************************************)
EXTENDS Integers, Sequences, FiniteSets, TLC

VARIABLES
    lines,          \* parse_text_file: the lines of the file (line 24)
    i,              \* parse_text_file: how many lines the for loop has consumed
    tables,         \* parse_text_file: the list of table records
    current_table,  \* parse_text_file: index in tables of the open record, 0 for None
    pc,             \* position in the program
    df,             \* write_tables_to_excel: the padded grid of strings (line 89)
    ws,             \* the worksheet's cell values
    merged,         \* the ranges passed to ws.merge_cells
    col,            \* merge_cells_in_worksheet: the column loop
    k,              \* merge_table_names / set_column_widths_by_header: the table loop
    row_counter,    \* merge_table_names: the title row of table k
    row_offset,     \* set_column_widths_by_header: rows above table k
    widths          \* ws.column_dimensions[...].width, 0 where never set

vars == <<lines, i, tables, current_table, pc, df, ws, merged, col, k,
          row_counter, row_offset, widths>>

-----------------------------------------------------------------------------
(* Bounds of the model *)

\* longest file of the parser specification
MaxLines == 5
\* longest file of the whole-program specifications
MaxSheetLines == 4
\* tallest grid of the grid specification
MaxGridRows == 4

-----------------------------------------------------------------------------
(* Python strings *)

Range(s) == {s[j] : j \in 1..Len(s)}

Max2(a, b) == IF a >= b THEN a ELSE b

\* max(...) of a finite set of naturals, with default 0
MaxOf(S) == IF S = {} THEN 0 ELSE CHOOSE m \in S : \A n \in S : n <= m

Whitespace == {" "}

\* str.replace(old, new) for one-character old and new
Replace(s, old, new) == [j \in 1..Len(s) |-> IF s[j] = old THEN new ELSE s[j]]

RECURSIVE LStrip(_)
LStrip(s) == IF s # <<>> /\ s[1] \in Whitespace THEN LStrip(Tail(s)) ELSE s

RECURSIVE RStrip(_)
RStrip(s) ==
    IF s # <<>> /\ s[Len(s)] \in Whitespace
    THEN RStrip(SubSeq(s, 1, Len(s) - 1))
    ELSE s

\* str.strip()
Strip(s) == RStrip(LStrip(s))

FirstIndex(s, sep) == CHOOSE p \in 1..Len(s) : s[p] = sep /\ \A q \in 1..(p - 1) : s[q] # sep

\* str.split(sep): always at least one part
RECURSIVE Split(_, _)
Split(s, sep) ==
    IF sep \notin Range(s)
    THEN <<s>>
    ELSE LET p == FirstIndex(s, sep)
         IN  <<SubSeq(s, 1, p - 1)>> \o Split(SubSeq(s, p + 1, Len(s)), sep)

\* str.split(sep, 1) of a string that holds sep: the two parts around its first sep
SplitOnce(s, sep) ==
    LET p == FirstIndex(s, sep)
    IN  <<SubSeq(s, 1, p - 1), SubSeq(s, p + 1, Len(s))>>

StripAll(parts) == [j \in 1..Len(parts) |-> Strip(parts[j])]

-----------------------------------------------------------------------------
(* parse_text_file *)

\* header: None is <<>>, a list cols is <<cols>>
None == <<>>

\* the name of a table with no title line (Cyrillic in the source, 12 characters,
\* transliterated here)
Untitled == <<"B", "e", "z", " ", "n", "a", "z", "v", "a", "n", "i", "y">>

\* line 31
Normalize(line) == Strip(Replace(line, ".", ","))

\* line 32, of a normalized line
IsBlank(line) == line = <<>>

\* line 37
IsTitle(line) == line # <<>> /\ "#" \notin Range(line)

IsData(line) == "#" \in Range(line)

\* lines 43-44
Cols(line) == StripAll(Split(Strip(SplitOnce(line, "#")[1]), "&"))

\* lines 43, 45
Vals(line) == StripAll(Split(Strip(SplitOnce(line, "#")[2]), "&"))

\* the parser's state is the pair of tables and current_table
\* lines 32-35: a blank line closes the current table
\* variant: the blank line leaves the current table open
BlankNoReset(st) == st
\* as in the source
OnBlank(st) == [st EXCEPT !.current_table = 0]

\* lines 37-40: a title line opens a new record
\* variant: a title line opens a record only when none is open
TitleReusesOpen(st, line) ==
    IF st.current_table # 0
    THEN st
    ELSE [tables |-> Append(st.tables, [name |-> line, header |-> None, rows |-> <<>>]),
          current_table |-> Len(st.tables) + 1]
\* as in the source
OnTitle(st, line) ==
    [tables |-> Append(st.tables, [name |-> line, header |-> None, rows |-> <<>>]),
     current_table |-> Len(st.tables) + 1]

\* lines 48-50: a data line with no open table opens an untitled one
OpenIfNone(st, cols) ==
    IF st.current_table = 0
    THEN [tables |-> Append(st.tables, [name |-> Untitled, header |-> <<cols>>, rows |-> <<>>]),
          current_table |-> Len(st.tables) + 1]
    ELSE st

\* lines 53-54: the header is set only while it is None
\* variant: every delimited line overwrites the header
SetHeaderAlways(t, cols) == [t EXCEPT !.header = <<cols>>]
\* as in the source
SetHeader(t, cols) == IF t.header = None THEN [t EXCEPT !.header = <<cols>>] ELSE t

\* lines 41-57
\* variant: the line that sets the header is not appended as a row
OnDataHeaderLineNotARow(st, line) ==
    LET cols == Cols(line)
        vals == Vals(line)
        st1 == OpenIfNone(st, cols)
        c == st1.current_table
        t0 == st1.tables[c]
        t1 == SetHeader(t0, cols)
    IN  [st1 EXCEPT !.tables[c] =
           IF t0.header = None THEN t1 ELSE [t1 EXCEPT !.rows = Append(t1.rows, vals)]]
\* as in the source
OnData(st, line) ==
    LET cols == Cols(line)
        vals == Vals(line)
        st1 == OpenIfNone(st, cols)
        c == st1.current_table
        t1 == SetHeader(st1.tables[c], cols)
    IN  [st1 EXCEPT !.tables[c] = [t1 EXCEPT !.rows = Append(t1.rows, vals)]]

ParserState == [tables |-> tables, current_table |-> current_table]

RenderUnchanged == UNCHANGED <<df, ws, merged, col, k, row_counter, row_offset, widths>>

\* one iteration of the for loop on a blank line
ParseBlank ==
    /\ pc = "parse"
    /\ i < Len(lines)
    /\ IsBlank(Normalize(lines[i + 1]))
    /\ LET st == OnBlank(ParserState)
       IN  /\ tables' = st.tables
           /\ current_table' = st.current_table
    /\ i' = i + 1
    /\ UNCHANGED <<lines, pc>>
    /\ RenderUnchanged

\* one iteration of the for loop on a title line
ParseTitle ==
    /\ pc = "parse"
    /\ i < Len(lines)
    /\ IsTitle(Normalize(lines[i + 1]))
    /\ LET st == OnTitle(ParserState, Normalize(lines[i + 1]))
       IN  /\ tables' = st.tables
           /\ current_table' = st.current_table
    /\ i' = i + 1
    /\ UNCHANGED <<lines, pc>>
    /\ RenderUnchanged

\* one iteration of the for loop on a delimited line
ParseData ==
    /\ pc = "parse"
    /\ i < Len(lines)
    /\ IsData(Normalize(lines[i + 1]))
    /\ LET st == OnData(ParserState, Normalize(lines[i + 1]))
       IN  /\ tables' = st.tables
           /\ current_table' = st.current_table
    /\ i' = i + 1
    /\ UNCHANGED <<lines, pc>>
    /\ RenderUnchanged

\* line 59, then line 230
ParseReturn ==
    /\ pc = "parse"
    /\ i = Len(lines)
    /\ pc' = "flatten"
    /\ UNCHANGED <<lines, i, tables, current_table>>
    /\ RenderUnchanged

-----------------------------------------------------------------------------
(* Cell values: a str, an int, a float or None.  A number is m / 10^e with  *)
(* no trailing zero in its fraction, so that equal numbers are equal        *)
(* records; numerals are short enough for float to tell them apart.         *)

NoneValue == [t |-> "none", s |-> <<>>, m |-> 0, e |-> 0]

StrValue(s) == [t |-> "str", s |-> s, m |-> 0, e |-> 0]

IntValue(n) == [t |-> "int", s |-> <<>>, m |-> n, e |-> 0]

FloatValue(m, e) == [t |-> "float", s |-> <<>>, m |-> m, e |-> e]

IsNumber(v) == v.t \in {"int", "float"}

\* Python's == on cell values: numbers by value, strings by content, None only to None
PyEq(a, b) ==
    \/ IsNumber(a) /\ IsNumber(b) /\ a.m = b.m /\ a.e = b.e
    \/ a.t = "str" /\ b.t = "str" /\ a.s = b.s
    \/ a.t = "none" /\ b.t = "none"

\* value in (None, "")
IsEmptyValue(v) == PyEq(v, NoneValue) \/ PyEq(v, StrValue(<<>>))

Digits == {"0", "1", "2", "3", "4", "5", "6", "7", "8", "9"}

DigitValue(ch) ==
    CASE ch = "0" -> 0 [] ch = "1" -> 1 [] ch = "2" -> 2 [] ch = "3" -> 3
      [] ch = "4" -> 4 [] ch = "5" -> 5 [] ch = "6" -> 6 [] ch = "7" -> 7
      [] ch = "8" -> 8 [] ch = "9" -> 9

RECURSIVE DigitsValue(_)
DigitsValue(s) ==
    IF s = <<>> THEN 0
    ELSE 10 * DigitsValue(SubSeq(s, 1, Len(s) - 1)) + DigitValue(s[Len(s)])

\* whether float(s) succeeds: digits with at most one period and at least one digit
IsNumeral(s) ==
    /\ Range(s) \subseteq Digits \cup {"."}
    /\ Cardinality({j \in 1..Len(s) : s[j] = "."}) <= 1
    /\ \E j \in 1..Len(s) : s[j] \in Digits

RECURSIVE Reduce(_, _)
Reduce(m, e) == IF e > 0 /\ m % 10 = 0 THEN Reduce(m \div 10, e - 1) ELSE [m |-> m, e |-> e]

\* float(s) of a numeral, as m / 10^e reduced
ParseFloat(s) ==
    IF "." \in Range(s)
    THEN LET parts == SplitOnce(s, ".")
         IN  Reduce(DigitsValue(parts[1] \o parts[2]), Len(parts[2]))
    ELSE [m |-> DigitsValue(s), e |-> 0]

-----------------------------------------------------------------------------
(* write_tables_to_excel, lines 71-95 *)

\* if table["header"]: neither None nor an empty list
HasHeader(table) == table.header # None /\ table.header[1] # <<>>

\* lines 74-83: the rows one table adds to sheet_data
\* variant: no empty separator row (line 83 left out)
FlattenNoSeparator(table) ==
    <<<<table.name>>>>
      \o <<IF HasHeader(table) THEN table.header[1] ELSE <<>>>>
      \o table.rows
\* as in the source
FlattenTable(table) ==
    <<<<table.name>>>>
      \o <<IF HasHeader(table) THEN table.header[1] ELSE <<>>>>
      \o table.rows
      \o << <<>> >>

\* lines 71-83
RECURSIVE SheetData(_)
SheetData(ts) ==
    IF ts = <<>> THEN <<>> ELSE FlattenTable(Head(ts)) \o SheetData(Tail(ts))

\* lines 86-87
Normalized(sheet_data) ==
    LET max_cols == MaxOf({Len(sheet_data[r]) : r \in 1..Len(sheet_data)})
    IN  [r \in 1..Len(sheet_data) |->
           [c \in 1..max_cols |->
              IF c <= Len(sheet_data[r]) THEN sheet_data[r][c] ELSE <<>>]]

\* line 93: every cell of the frame is written as a string
ToExcel(frame) ==
    [r \in 1..Len(frame) |-> [c \in 1..Len(frame[r]) |-> StrValue(frame[r][c])]]

\* ws.max_row, ws.max_column: 1 for a sheet with no cell
MaxRow(w) == IF w = <<>> THEN 1 ELSE Len(w)

MaxColumn(w) == IF w = <<>> \/ w[1] = <<>> THEN 1 ELSE Len(w[1])

\* ws.cell(row, column).value: None for a cell never written
CellValue(w, row, column) ==
    IF row <= Len(w) /\ column <= Len(w[row]) THEN w[row][column] ELSE NoneValue

Flatten ==
    /\ pc = "flatten"
    /\ df' = Normalized(SheetData(tables))
    /\ ws' = ToExcel(df')
    /\ widths' = [c \in 1..MaxColumn(ws') |-> 0]
    /\ pc' = "convert"
    /\ UNCHANGED <<lines, i, tables, current_table, merged, col, k, row_counter, row_offset>>

-----------------------------------------------------------------------------
(* convert_strings_to_numbers, lines 120-142 *)

\* lines 122-142, for one cell
\* variant: no coercion, the cell keeps its string
ConvertNothing(val) == val
\* as in the source
ConvertCell(val) ==
    IF val.t # "str" THEN val
    ELSE LET val_str == Strip(val.s)
         IN  IF val_str = <<>> THEN val
             ELSE LET maybe_num == Replace(val_str, ",", ".")
                  IN  IF ~IsNumeral(maybe_num) THEN val
                      ELSE LET number == ParseFloat(maybe_num)
                           IN  IF number.e = 0
                               THEN IntValue(number.m)
                               ELSE FloatValue(number.m, number.e)

ConvertStringsToNumbers ==
    /\ pc = "convert"
    /\ ws' = [r \in 1..Len(ws) |-> [c \in 1..Len(ws[r]) |-> ConvertCell(ws[r][c])]]
    /\ pc' = "vmerge"
    /\ col' = 1
    /\ UNCHANGED <<lines, i, tables, current_table, df, merged, k, row_counter,
                   row_offset, widths>>

-----------------------------------------------------------------------------
(* merge_cells_in_worksheet, lines 148-170 *)

\* ws.merge_cells(start_row, start_column, end_row, end_column)
CellRange(start_row, start_column, end_row, end_column) ==
    [start_row |-> start_row, start_column |-> start_column,
     end_row |-> end_row, end_column |-> end_column]

\* lines 168-170: the run still open at the end of the column
\* variant: the run open at the end of the column is not merged
NoTailMerge(w, c, row_start, current_value) == {}
\* as in the source
TailMerge(w, c, row_start, current_value) ==
    IF ~IsEmptyValue(current_value) /\ row_start < MaxRow(w)
    THEN {CellRange(row_start, c, MaxRow(w), c)}
    ELSE {}

\* lines 160-162: the run that ends above row
RunMerge(c, row, row_start, current_value) ==
    IF ~IsEmptyValue(current_value) /\ row - 1 > row_start
    THEN {CellRange(row_start, c, row - 1, c)}
    ELSE {}

\* lines 155-170: the inner loop from row on, and what follows it
RECURSIVE ScanColumn(_, _, _, _, _)
ScanColumn(w, c, row, row_start, current_value) ==
    IF row > MaxRow(w)
    THEN TailMerge(w, c, row_start, current_value)
    ELSE LET cell_value == CellValue(w, row, c)
         IN  IF ~PyEq(cell_value, current_value) \/ IsEmptyValue(current_value)
             THEN RunMerge(c, row, row_start, current_value)
                    \cup ScanColumn(w, c, row + 1, row, cell_value)
             ELSE ScanColumn(w, c, row + 1, row_start, current_value)

\* lines 152-170: the ranges merged in column c
MergeColumn(w, c) == ScanColumn(w, c, 2, 1, CellValue(w, 1, c))

\* one iteration of the column loop; after the last column, line 104
MergeCellsColumn ==
    /\ pc = "vmerge"
    /\ col <= MaxColumn(ws)
    /\ merged' = merged \cup MergeColumn(ws, col)
    /\ col' = col + 1
    /\ IF col = MaxColumn(ws)
       THEN /\ pc' = IF tables = <<>> THEN "done" ELSE "tmerge"
            /\ k' = 1
            /\ row_counter' = 1
       ELSE UNCHANGED <<pc, k, row_counter>>
    /\ UNCHANGED <<lines, i, tables, current_table, df, ws, row_offset, widths>>

-----------------------------------------------------------------------------
(* merge_table_names, lines 182-199 *)

\* lines 185-187
\* variant: the padded width of the sheet instead of the table's own
GlobalWidth(table) == MaxColumn(ws)
\* as in the source
TableWidth(table) ==
    LET header_width == IF HasHeader(table) THEN Len(table.header[1]) ELSE 0
        rows_width == MaxOf({Len(table.rows[r]) : r \in 1..Len(table.rows)})
    IN  Max2(Max2(header_width, rows_width), 1)

\* lines 198, 223
TotalRowsForTable(table) == 1 + 1 + Len(table.rows) + 1

\* one iteration of the table loop; after the last table, line 107
MergeTableName ==
    /\ pc = "tmerge"
    /\ k <= Len(tables)
    /\ merged' = merged \cup {CellRange(row_counter, 1, row_counter, TableWidth(tables[k]))}
    /\ row_counter' = row_counter + TotalRowsForTable(tables[k])
    /\ IF k = Len(tables)
       THEN /\ pc' = "widths"
            /\ k' = 1
            /\ row_offset' = 0
       ELSE /\ k' = k + 1
            /\ UNCHANGED <<pc, row_offset>>
    /\ UNCHANGED <<lines, i, tables, current_table, df, ws, col, widths>>

-----------------------------------------------------------------------------
(* set_column_widths_by_header, lines 206-224 *)

default_width == 10

\* lines 213-220: the widths after the header of one table
HeaderWidths(wd, table) ==
    IF HasHeader(table)
    THEN [c \in DOMAIN wd |->
            IF c <= Len(table.header[1]) /\ Len(table.header[1][c]) > default_width
            THEN Len(table.header[1][c])
            ELSE wd[c]]
    ELSE wd

\* one iteration of the table loop
SetColumnWidths ==
    /\ pc = "widths"
    /\ k <= Len(tables)
    /\ widths' = HeaderWidths(widths, tables[k])
    /\ row_offset' = row_offset + TotalRowsForTable(tables[k])
    /\ k' = k + 1
    /\ pc' = IF k = Len(tables) THEN "done" ELSE pc
    /\ UNCHANGED <<lines, i, tables, current_table, df, ws, merged, col, row_counter>>

-----------------------------------------------------------------------------
(* Specifications *)

\* the files of at most n lines drawn from the set L
Files(L, n) == UNION {[1..m -> L] : m \in 0..n}

\* the lines of the whole-program specification
SheetLines ==
    { <<" ">>,
      <<"a">>,
      <<"a", "#", "a">>,
      <<"a", "#", "1">>,
      <<"a", "#", "1", ".", "0">>,
      <<"a", "#", "1", ".", "5">>,
      <<"a", "&", "b", "&", "c", "#", "1", "&", "2">> }

\* the lines of the parser specification
ParseLines ==
    { <<" ">>,
      <<" ", "T", ".">>,
      <<"a", "#", "1">>,
      <<"b", " ", "&", "c", "#", " ", "2", "&", "3", ".", "5">> }

\* the lines of the column width specification: headers of 11 and 12 characters
WidthLines ==
    { <<" ">>,
      <<"T">>,
      <<"h", "h", "h", "h", "h", "h", "h", "h", "h", "h", "h", "#", "1">>,
      <<"h", "h", "h", "h", "h", "h", "h", "h", "h", "h", "h", "h", "&", "x", "#", "1", "&", "2">> }

\* the state at line 26, for a file read at line 24
InitWith(file) ==
    /\ lines = file
    /\ i = 0
    /\ tables = <<>>
    /\ current_table = 0
    /\ pc = "parse"
    /\ df = <<>>
    /\ ws = <<>>
    /\ merged = {}
    /\ col = 1
    /\ k = 1
    /\ row_counter = 1
    /\ row_offset = 0
    /\ widths = <<>>

Init == \E file \in Files(SheetLines, MaxSheetLines) : InitWith(file)

InitParse == \E file \in Files(ParseLines, MaxLines) : InitWith(file)

InitWidth == \E file \in Files(WidthLines, MaxSheetLines) : InitWith(file)

Next ==
    \/ ParseBlank
    \/ ParseTitle
    \/ ParseData
    \/ ParseReturn
    \/ Flatten
    \/ ConvertStringsToNumbers
    \/ MergeCellsColumn
    \/ MergeTableName
    \/ SetColumnWidths

\* the whole program on files of SheetLines
Spec == Init /\ [][Next]_vars

\* parse_text_file alone
NextParse ==
    \/ ParseBlank
    \/ ParseTitle
    \/ ParseData
    \/ ParseReturn

\* parse_text_file on files of ParseLines
SpecParse == InitParse /\ [][NextParse]_vars

\* the whole program on files of WidthLines
SpecWidth == InitWidth /\ [][Next]_vars

\* the cell values of the one-column grids
GridValues ==
    {NoneValue, StrValue(<<>>), StrValue(<<"A">>), IntValue(1), FloatValue(15, 1)}

\* the cell values of the two-column grids
GridValuesTwo == {StrValue(<<>>), StrValue(<<"A">>), StrValue(<<"B">>)}

\* the grids with the given number of columns, of 1 to MaxGridRows rows
Grids(values, columns) == UNION {[1..n -> [1..columns -> values]] : n \in 1..MaxGridRows}

\* the state at line 148, for a worksheet holding any grid
InitGrid ==
    /\ ws \in Grids(GridValues, 1) \cup Grids(GridValuesTwo, 2)
    /\ lines = <<>>
    /\ i = 0
    /\ tables = <<>>
    /\ current_table = 0
    /\ pc = "vmerge"
    /\ df = <<>>
    /\ merged = {}
    /\ col = 1
    /\ k = 1
    /\ row_counter = 1
    /\ row_offset = 0
    /\ widths = <<>>

NextGrid == MergeCellsColumn

\* merge_cells_in_worksheet on any grid
SpecGrid == InitGrid /\ [][NextGrid]_vars

-----------------------------------------------------------------------------
(* The input as the claims see it: lines, blocks and the lines that open a *)
(* record.                                                                 *)

NLine(j) == Normalize(lines[j])

\* line j is the first line of a maximal run of non-blank lines
BlockStart(j) == ~IsBlank(NLine(j)) /\ (j = 1 \/ IsBlank(NLine(j - 1)))

BlockStarts(n) == {j \in 1..n : BlockStart(j)}

NumBlocks(n) == Cardinality(BlockStarts(n))

\* the lines of the block that starts at line s
BlockLines(s) == {j \in s..Len(lines) : \A q \in s..j : ~IsBlank(NLine(q))}

BlockTitles(s) == {j \in BlockLines(s) : IsTitle(NLine(j))}

BlockData(s) == {j \in BlockLines(s) : IsData(NLine(j))}

\* the start of the n-th block
NthBlock(n) == CHOOSE s \in BlockStarts(Len(lines)) : Cardinality(BlockStarts(s)) = n

MinOf(S) == CHOOSE m \in S : \A n \in S : m <= n

\* line j is a title line, or a delimited line that starts a block
Opens(j) == IsTitle(NLine(j)) \/ (IsData(NLine(j)) /\ BlockStart(j))

OpeningLines(n) == {j \in 1..n : Opens(j)}

\* the line that opened the n-th record
OpenedAt(n) == CHOOSE j \in OpeningLines(i) : Cardinality(OpeningLines(j)) = n

\* the consumed delimited lines that follow the opening of the n-th record with no
\* other opening line in between
OwnData(n) ==
    {j \in OpenedAt(n)..i : IsData(NLine(j)) /\ \A q \in (OpenedAt(n) + 1)..j : ~Opens(q)}

ParseDone == pc # "parse"

-----------------------------------------------------------------------------
(* C1 *)

\* C1 as stated: when parse_text_file returns, the number of records equals the
\* number of maximal runs of non-blank lines of the input.
C1_OneRecordPerBlock == ParseDone => Len(tables) = NumBlocks(Len(lines))

\* C1 amended: after any number of consumed lines, the number of records equals
\* the number of title lines plus the number of blocks that start with a
\* delimited line, among the consumed lines.
C1_OneRecordPerOpeningLine == Len(tables) = Cardinality(OpeningLines(i))

\* C1 witness: the parser has returned more records than the input has blocks.
C1_Witness == ParseDone /\ NumBlocks(Len(lines)) >= 1 /\ Len(tables) > NumBlocks(Len(lines))

-----------------------------------------------------------------------------
(* C2 *)

\* every block has exactly one title line and M delimited lines
UniformBlocks(M) ==
    \A s \in BlockStarts(Len(lines)) :
        Cardinality(BlockTitles(s)) = 1 /\ Cardinality(BlockData(s)) = M

\* the title line of every block is its first line
TitleFirst == \A s \in BlockStarts(Len(lines)) : IsTitle(NLine(s))

\* N records of M rows, each with the cols of the first delimited line of its block
OneRecordPerBlockOf(M) ==
    /\ Len(tables) = NumBlocks(Len(lines))
    /\ \A n \in 1..Len(tables) :
         /\ Len(tables[n].rows) = M
         /\ tables[n].header =
              IF M = 0 THEN None ELSE <<Cols(NLine(MinOf(BlockData(NthBlock(n)))))>>

\* C2 as stated: for N blocks of one title line and M delimited lines each, in any
\* order inside the block, the parser returns N records of M rows whose header is
\* the cols of the block's first delimited line.
C2_AnyOrder ==
    ParseDone => \A M \in 0..Len(lines) : UniformBlocks(M) => OneRecordPerBlockOf(M)

\* C2 amended: the same, for blocks whose title line is their first line (and a
\* header of None when M = 0).
C2_TitleFirst ==
    ParseDone =>
        \A M \in 0..Len(lines) : (UniformBlocks(M) /\ TitleFirst) => OneRecordPerBlockOf(M)

\* C2 witness: two blocks of a title line followed by one delimited line, parsed
\* into two records of one row.
C2_Witness ==
    /\ ParseDone
    /\ NumBlocks(Len(lines)) = 2
    /\ UniformBlocks(1)
    /\ TitleFirst
    /\ Len(tables) = 2
    /\ Len(tables[2].rows) = 1

-----------------------------------------------------------------------------
(* C3 *)

\* a header that is set stays as it is
HeaderKept ==
    \A n \in 1..Len(tables) :
        tables[n].header # None =>
            Len(tables') >= n /\ tables'[n].header = tables[n].header

\* each record's header is the cols of the first delimited line it received, None
\* if it received none
HeaderIsFirstCols ==
    \A n \in 1..Len(tables) :
        tables[n].header =
            IF OwnData(n) = {} THEN None ELSE <<Cols(NLine(MinOf(OwnData(n))))>>

\* C3: in every state every record's header is None if the record received no
\* delimited line and otherwise the cols of the first delimited line it received,
\* and no step changes a header that is set.
C3_HeaderNeverOverwritten == [](HeaderIsFirstCols) /\ [][HeaderKept]_vars

\* C3 witness: a record has received two delimited lines of different cols and
\* holds the cols of the first.
C3_Witness ==
    \E n \in 1..Len(tables) :
        /\ Len(tables[n].rows) >= 2
        /\ \E j \in OwnData(n) : Cols(NLine(j)) # tables[n].header[1]
        /\ tables[n].header = <<Cols(NLine(MinOf(OwnData(n))))>>

-----------------------------------------------------------------------------
(* C8 *)

\* a record exists and no blank line was consumed since it was created
RecordOpen ==
    /\ OpeningLines(i) # {}
    /\ \A q \in MaxOf(OpeningLines(i))..i : ~IsBlank(NLine(q))

\* the step that consumes a delimited line
DataStep == pc = "parse" /\ i < Len(lines) /\ i' = i + 1 /\ IsData(NLine(i + 1))

DataStepEffect ==
    LET line == NLine(i + 1)
        last == Len(tables)
    IN  IF RecordOpen
        THEN /\ Len(tables') = last
             /\ tables'[last].rows = Append(tables[last].rows, Vals(line))
             /\ tables'[last].name = tables[last].name
             /\ \A n \in 1..(last - 1) : tables'[n] = tables[n]
        ELSE tables' = Append(tables, [name |-> Untitled, header |-> <<Cols(line)>>,
                                        rows |-> <<Vals(line)>>])

\* C8: every step that consumes a delimited line appends its vals to the most
\* recently created record when no blank line was consumed since that record's
\* creation, and otherwise appends a new untitled record with the line's cols as
\* header and its vals as only row; no other record changes.
C8_BlankOnlyResets == [][DataStep => DataStepEffect]_vars

\* C8 witness: two consecutive title lines and a delimited line were consumed; the
\* first title's record has no row and the second has the line's vals.
C8_Witness ==
    /\ pc = "parse"
    /\ i >= 3
    /\ IsTitle(NLine(i - 2))
    /\ IsTitle(NLine(i - 1))
    /\ IsData(NLine(i))
    /\ Len(tables) >= 2
    /\ tables[Len(tables) - 1].rows = <<>>
    /\ tables[Len(tables)].rows = <<Vals(NLine(i))>>

-----------------------------------------------------------------------------
(* The sheet as the claims see it *)

\* merge_cells_in_worksheet has returned
VerticalDone == pc \in {"tmerge", "widths", "done"}

\* merge_table_names has returned
TitlesDone == pc \in {"widths", "done"}

IsVertical(rg) == rg.start_row < rg.end_row

IsHorizontal(rg) == rg.start_row = rg.end_row

\* the rows r1..r2 of column c lie in one merged range
InOneRange(r1, r2, c) ==
    \E rg \in merged :
        /\ rg.start_column <= c /\ c <= rg.end_column
        /\ rg.start_row <= r1 /\ r2 <= rg.end_row

RECURSIVE RowsBefore(_)
\* the sheet rows of the tables before the n-th: 3 rows and the data rows for each
RowsBefore(n) == IF n = 1 THEN 0 ELSE RowsBefore(n - 1) + Len(tables[n - 1].rows) + 3

\* the sheet row of the n-th table's name
TitleRow(n) == 1 + RowsBefore(n)

\* the sheet row of the n-th table's separator
SeparatorRow(n) == TitleRow(n) + 2 + Len(tables[n].rows)

-----------------------------------------------------------------------------
(* C4 *)

\* the maximal runs of two or more vertically adjacent cells of column c that hold
\* the same non-empty value
MaximalRuns(w, c) ==
    {CellRange(a, c, b, c) : <<a, b>> \in
        {ab \in (1..MaxRow(w)) \X (1..MaxRow(w)) :
            /\ ab[1] < ab[2]
            /\ ~IsEmptyValue(CellValue(w, ab[1], c))
            /\ \A r \in ab[1]..ab[2] : PyEq(CellValue(w, r, c), CellValue(w, ab[1], c))
            /\ ab[1] = 1 \/ ~PyEq(CellValue(w, ab[1] - 1, c), CellValue(w, ab[1], c))
            /\ ab[2] = MaxRow(w) \/ ~PyEq(CellValue(w, ab[2] + 1, c), CellValue(w, ab[1], c))}}

\* C4: the ranges merge_cells_in_worksheet has merged are one-column ranges of
\* the columns it has walked, and in each such column they are exactly the
\* maximal runs of two or more adjacent cells holding the same non-empty value.
C4_VerticalRunsExactly ==
    pc \in {"vmerge", "done"} =>
        /\ \A rg \in merged : rg.start_column = rg.end_column /\ rg.start_column < col
        /\ \A c \in 1..MaxColumn(ws) :
             c < col => {rg \in merged : rg.start_column = c} = MaximalRuns(ws, c)

\* C4 witness: the column [A, A, A, B] has been walked and holds the one range of
\* rows 1 to 3.
C4_Witness ==
    /\ col > 1
    /\ MaxRow(ws) = 4
    /\ ws[1][1] = StrValue(<<"A">>)
    /\ ws[2][1] = StrValue(<<"A">>)
    /\ ws[3][1] = StrValue(<<"A">>)
    /\ ws[4][1] = StrValue(<<"B">>)
    /\ {rg \in merged : rg.start_column = 1} = {CellRange(1, 1, 3, 1)}

-----------------------------------------------------------------------------
(* C5 *)

One == <<"1">>

OneComma == <<"1", ",", "0">>

\* rows r and r + 1 of column c hold the texts "1" and "1,0", in either order
OneAndOneComma(r, c) ==
    \/ df[r][c] = One /\ df[r + 1][c] = OneComma
    \/ df[r][c] = OneComma /\ df[r + 1][c] = One

AdjacentCells == {rc \in (1..Len(df)) \X (1..MaxColumn(ws)) : rc[1] < Len(df)}

\* C5 as stated: two vertically adjacent cells whose texts are "1" and "1,0" are
\* not merged into one range.
C5_NotConflated ==
    VerticalDone =>
        \A rc \in AdjacentCells :
            OneAndOneComma(rc[1], rc[2]) => ~InOneRange(rc[1], rc[1] + 1, rc[2])

\* C5 amended: merge equality is computed on the values after coercion, and the
\* coercion maps both "1" and "1,0" to the integer 1: two vertically adjacent cells
\* are in one merged range exactly when their coerced values are equal and not
\* empty, so cells with the texts "1" and "1,0" are merged into one range.
C5_ConflatedByCoercion ==
    VerticalDone =>
        \A rc \in AdjacentCells :
            LET r == rc[1]
                c == rc[2]
            IN  /\ InOneRange(r, r + 1, c) <=>
                     (PyEq(ws[r][c], ws[r + 1][c]) /\ ~IsEmptyValue(ws[r][c]))
                /\ OneAndOneComma(r, c) =>
                     /\ ws[r][c] = IntValue(1)
                     /\ ws[r + 1][c] = IntValue(1)
                     /\ InOneRange(r, r + 1, c)

\* C5 witness: adjacent cells with the texts "1" and "1,0" lie in one merged range.
C5_Witness ==
    /\ VerticalDone
    /\ \E rc \in AdjacentCells :
         OneAndOneComma(rc[1], rc[2]) /\ InOneRange(rc[1], rc[1] + 1, rc[2])

-----------------------------------------------------------------------------
(* C6 *)

\* max(header field count, maximum data-row field count, 1) of the n-th table
SpanWidth(n) ==
    LET t == tables[n]
        h == IF t.header = None THEN 0 ELSE Len(t.header[1])
        d == MaxOf({Len(t.rows[r]) : r \in 1..Len(t.rows)})
    IN  MaxOf({h, d, 1})

-----------------------------------------------------------------------------
(* C7 *)

\* C7 as stated: once a column's width is set, no later table sets it to a
\* smaller width.
C7_NeverNarrows ==
    [][\A c \in DOMAIN widths : widths[c] # 0 => widths'[c] >= widths[c]]_vars

\* the tables whose header has at position c a label longer than default_width
LongLabelTables(c) ==
    {n \in 1..Len(tables) :
        /\ tables[n].header # None
        /\ c <= Len(tables[n].header[1])
        /\ Len(tables[n].header[1][c]) > default_width}

\* C7, what the pass does instead: the last table applied wins, so a later
\* table's header can widen or narrow a column.  When the pass has returned, the
\* width of each column is the length of the label at that position in the last
\* table whose label there is longer than default_width, and is not set if there
\* is none; no width of default_width or less is ever set.
C7_LastLongLabelWins ==
    /\ \A c \in DOMAIN widths : widths[c] = 0 \/ widths[c] > default_width
    /\ pc = "done" =>
         \A c \in DOMAIN widths :
             widths[c] =
                 IF LongLabelTables(c) = {} THEN 0
                 ELSE Len(tables[MaxOf(LongLabelTables(c))].header[1][c])

\* C7, the narrowed column: a column's final width is smaller than a label longer
\* than default_width at its position.
C7_Narrowed ==
    /\ pc = "done"
    /\ \E c \in DOMAIN widths :
         \E n \in LongLabelTables(c) : widths[c] < Len(tables[n].header[1][c])

-----------------------------------------------------------------------------
(* C9 *)

\* C9: every vertical merged range lies within the name, header and data rows of
\* one table, and every cell of every separator row is empty.
C9_NoCrossTableMerge ==
    /\ \A rg \in merged :
         IsVertical(rg) =>
             \E n \in 1..Len(tables) :
                 TitleRow(n) <= rg.start_row /\ rg.end_row < SeparatorRow(n)
    /\ pc \notin {"parse", "flatten"} =>
         \A n \in 1..Len(tables) :
             \A c \in 1..MaxColumn(ws) : IsEmptyValue(CellValue(ws, SeparatorRow(n), c))

\* C9 witness: the last data row of a table and the name of the next table hold
\* the same value, and the merged range that holds that data row ends on it.
C9_Witness ==
    /\ pc = "done"
    /\ \E n \in 1..(Len(tables) - 1) :
         /\ tables[n].rows # <<>>
         /\ PyEq(ws[SeparatorRow(n) - 1][1], ws[TitleRow(n + 1)][1])
         /\ \E rg \in merged : IsVertical(rg) /\ rg.end_row = SeparatorRow(n) - 1

-----------------------------------------------------------------------------
(* C10 *)

\* the two ranges share a cell
Overlap(x, y) ==
    /\ x.start_row <= y.end_row /\ y.start_row <= x.end_row
    /\ x.start_column <= y.end_column /\ y.start_column <= x.end_column

\* C10: after both merge passes the merged ranges are pairwise disjoint.
C10_RangesDisjoint ==
    pc = "done" => \A x \in merged : \A y \in merged : x # y => ~Overlap(x, y)

=============================================================================
